---- MODULE Spec2Model ----
\* Card interaction and layout engine of cardigan (src/src/gameplay.rs), as a
\* state machine over the Bevy world: one action per registered Update system,
\* one for the start of a frame (the frame's input) and one for the end of the
\* Update schedule (where the deferred Commands of the frame are applied).
\*
\* Numbers.  f32 values are fixed-point integers: lengths and positions in
\* hundredths of a world unit, scales in ten-thousandths, rotations in
\* hundredths of a radian, frame times in milliseconds.  z values are whole
\* units.
\*
\* Specifications.  Spec is the gameplay screen with every input and both
\* system orders, mode changes included.  HandSpec is the same screen with
\* the systems in registration order and a hand of up to HandCards cards.
\* DeckSpec draws the whole deck while the window is resized.  AnimSpec is the
\* animation pass alone on targets that no longer change, with frames that
\* keep coming.  ViewSpec is the gameplay screen while the window or the
\* camera may be missing.  SlotSpec is the search for the slot of a drop
\* alone, over every order in which the slots can be visited.
EXTENDS Integers, Sequences, FiniteSets, TLC

\* ------------------------------------------------------------------ bounds
\* At most MaxCards cards are drawn from the deck in a run.
MaxCards == 2
\* The pointer visits the centres of player slots 0 .. MaxPointerSlot.
MaxPointerSlot == 1
\* The longer hand of HandSpec has at most HandCards cards.
HandCards == 3
\* Every iteration order is taken for worlds of at most MaxPermuted cards.
MaxPermuted == 3

\* ------------------------------------------------------- program constants
DeckSize == 10
NumSlots == 5
WindowWidth == 128000
WindowHeight == 72000
HoverScale == 13000
DefaultScale == 10000
AnimationSpeed == 5
DragZ == 1000
HoverZ == 100
ZStep == 10
SpawnX == 0
SpawnY == -25000
RotationPerCard == 8
ScaleSnap == 10
PosSnap == 10

\* ---------------------------------------------------------------- helpers
Abs(a) == IF a < 0 THEN -a ELSE a
Max(a, b) == IF a > b THEN a ELSE b
\* f32 division, rounded toward zero on the fixed-point grid
TDiv(a, b) == IF a >= 0 THEN a \div b ELSE -((-a) \div b)
\* f32 multiplication by a fraction, rounded to the nearest point of the grid
RDiv(a, b) == IF a >= 0 THEN (2 * a + b) \div (2 * b) ELSE -((2 * (-a) + b) \div (2 * b))

NoEntity == 0
NoSlot == -1
NoCursor == <<"none">>
At(x, y) == <<"at", x, y>>
X(p) == p[2]
Y(p) == p[3]
Slots == 0 .. (NumSlots - 1)

\* ------------------------------------------------------------ LayoutZones
card_height(h) == TDiv(h * 40, 100)
card_width(h) == TDiv(card_height(h) * 2, 3)

player_hand_y(h) == -TDiv(h, 2) + TDiv(h * 25, 1000) + TDiv(card_height(h), 2)

player_play_area_y(h) == player_hand_y(h) + card_height(h) + TDiv(h * 8, 100)

opponent_play_area_y(h) ==
    (TDiv(h, 2) - TDiv(h * 25, 1000) - TDiv(card_height(h), 2))
        - card_height(h) - TDiv(h * 8, 100)

\* variant: the slots are set closer than a card is wide
slot_x_overlapping(h, num_slots, i) ==
    LET spacing == -TDiv(card_width(h) * 2, 10)
        total_width == num_slots * card_width(h) + (num_slots - 1) * spacing
        start_x == -TDiv(total_width, 2)
    IN start_x + i * (card_width(h) + spacing) + TDiv(card_width(h), 2)

\* x of slot i in a row of num_slots slots
slot_x(h, num_slots, i) ==
    LET spacing == TDiv(card_width(h) * 2, 10)
        total_width == num_slots * card_width(h) + (num_slots - 1) * spacing
        start_x == -TDiv(total_width, 2)
    IN start_x + i * (card_width(h) + spacing) + TDiv(card_width(h), 2)

calculate_slot_positions(h, num_slots, center_y) ==
    [i \in 0 .. (num_slots - 1) |-> At(slot_x(h, num_slots, i), center_y)]

\* the transform given to each player slot by setup_play_areas
PlayerSlotPos == calculate_slot_positions(WindowHeight, NumSlots, player_play_area_y(WindowHeight))
OpponentSlotPos == calculate_slot_positions(WindowHeight, NumSlots, opponent_play_area_y(WindowHeight))

\* the deck's anchor offsets and transform, from setup_gameplay
deck_offset_x(h) == -(TDiv(card_width(h), 2) + TDiv(card_width(h), 10))
deck_offset_y(h) == TDiv(card_height(h), 2) + TDiv(card_width(h), 10)
\* variant: the deck is centred on the corner itself
deck_position_on_corner(win) == At(TDiv(win[1], 2), -TDiv(win[2], 2))

deck_position(win) ==
    At(TDiv(win[1], 2) + deck_offset_x(win[2]), -TDiv(win[2], 2) + deck_offset_y(win[2]))
DeckPos == deck_position(<<WindowWidth, WindowHeight>>)

\* the axis-aligned box test used for cards, slots and the deck
InBox(p, center, half_x, half_y) ==
    /\ X(p) >= X(center) - half_x
    /\ X(p) <= X(center) + half_x
    /\ Y(p) >= Y(center) - half_y
    /\ Y(p) <= Y(center) + half_y

\* ------------------------------------------------------------------ state
VARIABLES
    deck,                \* GameplayState.deck: card names, top = last
    player_hand,         \* GameplayState.player_hand: entities, left to right
    player_play_area,    \* GameplayState.player_play_area: slot -> entity
    opponent_play_area,  \* GameplayState.opponent_play_area: slot -> entity
    slot_occupied,       \* CardSlot.occupied of the player slot entities
    opponent_slot_occupied, \* CardSlot.occupied of the opponent slot entities
    cards,               \* the spawned Card entities: entity id -> components
    deck_entity,         \* which deck visual exists: "Deck" or "DeckEmpty"
    commands,            \* the Commands queued in this frame, not yet applied
    button_down,         \* ButtonInput<MouseButton>: Left is held
    just_pressed,        \* ButtonInput::just_pressed(Left) in this frame
    just_released,       \* ButtonInput::just_released(Left) in this frame
    cursor,              \* the pointer in world space, or NoCursor
    view,                \* "ok", or which of window / camera is missing
    dt,                  \* Time::delta of this frame, in ms
    schedule,            \* the order in which Update runs the five systems
    pc,                  \* 0 between frames; k: k-1 systems have run
    dropped_on_slot,     \* per card released in this frame: slot taken, or NoSlot
    released_last_frame, \* history: dropped_on_slot of the frame before
    drag_origin,         \* history: a card's target_position when its drag began
    mode,                \* State<GameState>: "Playing", "Paused" or "Menu"
    window,              \* the Window's size <<width, height>> as it is now
    window_dims,         \* the WindowDimensions resource <<width, height>>
    deck_pos,            \* Transform of the deck visual (or its placeholder)
    deck_anchor,         \* its AnchorPosition::BottomRight <<offset_x, offset_y>>
    deck_size            \* its Sprite's custom_size <<width, height>>

vars == <<deck, player_hand, player_play_area, opponent_play_area,
          slot_occupied, opponent_slot_occupied, cards, deck_entity, commands,
          button_down, just_pressed, just_released, cursor, view, dt,
          schedule, pc, dropped_on_slot, released_last_frame, drag_origin,
          mode, window, window_dims, deck_pos, deck_anchor, deck_size>>

game_vars == <<deck, player_hand, player_play_area, opponent_play_area,
               slot_occupied, opponent_slot_occupied, deck_entity, deck_anchor,
               deck_size>>
input_vars == <<button_down, just_pressed, just_released, cursor, view, dt, schedule>>
history_vars == <<released_last_frame, drag_origin>>
window_vars == <<mode, window, window_dims, deck_pos>>

Systems == {"hand_layout", "card_hover", "card_animation", "deck_click", "card_drag"}

\* The five systems are registered as one tuple without .chain(): Bevy orders
\* them as it likes.  Every pair of systems runs in both relative orders under
\* these two schedules.
RegistrationOrder == <<"hand_layout", "card_hover", "card_animation", "deck_click", "card_drag">>
ReverseOrder == <<"card_drag", "deck_click", "card_animation", "card_hover", "hand_layout">>
Schedules == {RegistrationOrder, ReverseOrder}

Entities == DOMAIN cards

\* Card::new plus the InHand, Sprite and Transform of the spawn in deck_click_system
NewCard(name, hand_index, z, card_size) ==
    [ name |-> name,
      size |-> card_size,
      is_hovered |-> FALSE,
      target_scale |-> DefaultScale,
      target_position |-> At(0, 0),
      in_hand |-> TRUE,
      hand_index |-> hand_index,
      dragging |-> FALSE,
      offset |-> <<0, 0>>,
      zone |-> NoSlot,
      pos |-> At(SpawnX, SpawnY),
      z |-> z,
      scale |-> DefaultScale,
      rotation |-> 0 ]

\* GameplayState::new
NewDeck == [i \in 1 .. DeckSize |-> i]

\* cleanup_gameplay: every entity with GameEntity is despawned, which is every
\* card, the deck or its placeholder and every slot
\* variant: the cards are left in the world
cleanup_gameplay_spares_cards(w) ==
    [ cards |-> w.cards,
      deck_entity |-> "none",
      slot_occupied |-> <<>>,
      opponent_slot_occupied |-> <<>> ]

cleanup_gameplay(w) ==
    [ cards |-> <<>>,
      deck_entity |-> "none",
      slot_occupied |-> <<>>,
      opponent_slot_occupied |-> <<>> ]

\* setup_gameplay and setup_play_areas, for a window of size `win` and a world
\* that holds the cards `cs`: resources are replaced, deck and slots spawned
setup_gameplay(win, cs) ==
    [ window_dims |-> win,
      deck |-> NewDeck,
      player_hand |-> <<>>,
      player_play_area |-> [k \in Slots |-> NoEntity],
      opponent_play_area |-> [k \in Slots |-> NoEntity],
      slot_occupied |-> [k \in Slots |-> FALSE],
      opponent_slot_occupied |-> [k \in Slots |-> FALSE],
      cards |-> cs,
      deck_entity |-> "Deck",
      deck_pos |-> deck_position(win),
      deck_anchor |-> <<deck_offset_x(win[2]), deck_offset_y(win[2])>>,
      deck_size |-> <<card_width(win[2]), card_height(win[2])>> ]

\* the world after setup_gameplay(win), as a predicate on the variables
Started(w) ==
    /\ window_dims = w.window_dims
    /\ deck = w.deck
    /\ player_hand = w.player_hand
    /\ player_play_area = w.player_play_area
    /\ opponent_play_area = w.opponent_play_area
    /\ slot_occupied = w.slot_occupied
    /\ opponent_slot_occupied = w.opponent_slot_occupied
    /\ cards = w.cards
    /\ deck_entity = w.deck_entity
    /\ deck_pos = w.deck_pos
    /\ deck_anchor = w.deck_anchor
    /\ deck_size = w.deck_size
    /\ commands = <<>>
    /\ just_pressed = FALSE
    /\ just_released = FALSE
    /\ cursor = NoCursor
    /\ view = "ok"
    /\ dt = 0
    /\ pc = 0
    /\ dropped_on_slot = {}
    /\ released_last_frame = {}
    /\ drag_origin = <<>>
    /\ mode = "Playing"

Init ==
    /\ window = <<WindowWidth, WindowHeight>>
    /\ button_down \in BOOLEAN
    /\ schedule \in Schedules
    /\ Started(setup_gameplay(window, <<>>))

\* -------------------------------------------------------- query iteration
\* A Bevy query visits the matching entities in table order, which changes
\* whenever a component is inserted or removed: any order of the entities.
\* (hands of more than MaxPermuted cards are visited forwards or backwards)
IterationOrders(cs) ==
    IF Len(cs) <= MaxPermuted
    THEN {it \in [DOMAIN cs -> DOMAIN cs] : \A i, j \in DOMAIN cs : i # j => it[i] # it[j]}
    ELSE {[i \in DOMAIN cs |-> i], [i \in DOMAIN cs |-> Len(cs) + 1 - i]}

InHandCount(cs) == Cardinality({e \in DOMAIN cs : cs[e].in_hand})

\* half extent of a card's box: sprite size * transform scale / 2
half_size_x(c) == TDiv(c.size[1] * c.scale, 2 * DefaultScale)
half_size_y(c) == TDiv(c.size[2] * c.scale, 2 * DefaultScale)
is_under_cursor(cursor_pos, c) == InBox(cursor_pos, c.pos, half_size_x(c), half_size_y(c))

\* variant: a card as high as the topmost so far takes its place
RECURSIVE topmost_card_or_equal(_, _, _, _, _)
topmost_card_or_equal(it, eligible, cs, cursor_pos, best) ==
    IF it = <<>> THEN best
    ELSE LET e == Head(it)
             hit == /\ e \in eligible
                    /\ is_under_cursor(cursor_pos, cs[e])
                    /\ (best = NoEntity \/ cs[e].z >= cs[best].z)
         IN topmost_card_or_equal(Tail(it), eligible, cs, cursor_pos, IF hit THEN e ELSE best)

\* The scan for the topmost card: `it` is what is left of the iteration,
\* `eligible` the entities the loop does not skip, `best` the topmost so far.
RECURSIVE topmost_card(_, _, _, _, _)
topmost_card(it, eligible, cs, cursor_pos, best) ==
    IF it = <<>> THEN best
    ELSE LET e == Head(it)
             hit == /\ e \in eligible
                    /\ is_under_cursor(cursor_pos, cs[e])
                    /\ (best = NoEntity \/ cs[e].z > cs[best].z)
         IN topmost_card(Tail(it), eligible, cs, cursor_pos, IF hit THEN e ELSE best)

\* variant: the hover scan does not skip the Dragging cards
hover_target_with_dragging(cs, it, cursor_pos) ==
    IF cursor_pos = NoCursor THEN NoEntity
    ELSE topmost_card(it, DOMAIN cs, cs, cursor_pos, NoEntity)

\* variant: without a pointer the card that was hovered stays the hovered one
hover_target_sticky(cs, it, cursor_pos) ==
    IF cursor_pos = NoCursor
    THEN IF \E e \in DOMAIN cs : cs[e].is_hovered /\ ~cs[e].dragging
         THEN CHOOSE e \in DOMAIN cs : cs[e].is_hovered /\ ~cs[e].dragging
         ELSE NoEntity
    ELSE topmost_card(it, {e \in DOMAIN cs : ~cs[e].dragging}, cs, cursor_pos, NoEntity)

\* ------------------------------------------------------ card_hover_system
\* the card the hover pass takes as hovered, or NoEntity
hover_target(cs, it, cursor_pos) ==
    IF cursor_pos = NoCursor THEN NoEntity
    ELSE topmost_card(it, {e \in DOMAIN cs : ~cs[e].dragging}, cs, cursor_pos, NoEntity)

\* variant: the pass flags the card under the pointer and clears no other
card_hover_system_never_clears(cs, it, cursor_pos) ==
    LET top == hover_target(cs, it, cursor_pos)
    IN [e \in DOMAIN cs |->
          LET c == cs[e]
          IN IF c.dragging \/ top # e \/ c.is_hovered THEN c
             ELSE [c EXCEPT !.is_hovered = TRUE, !.target_scale = HoverScale]]

\* variant: a card that stops being hovered keeps the target scale it had
card_hover_system_keeps_scale(cs, it, cursor_pos) ==
    LET top == hover_target(cs, it, cursor_pos)
    IN [e \in DOMAIN cs |->
          LET c == cs[e]
              should_hover == (top = e)
          IN IF c.dragging THEN c
             ELSE IF should_hover # c.is_hovered
                  THEN [c EXCEPT !.is_hovered = should_hover,
                                 !.target_scale = IF should_hover THEN HoverScale
                                                  ELSE c.target_scale]
                  ELSE c]

card_hover_system(cs, it, cursor_pos) ==
    LET top == hover_target(cs, it, cursor_pos)
    IN [e \in DOMAIN cs |->
          LET c == cs[e]
              should_hover == (top = e)
          IN IF c.dragging THEN c
             ELSE IF should_hover # c.is_hovered
                  THEN [c EXCEPT !.is_hovered = should_hover,
                                 !.target_scale = IF should_hover THEN HoverScale
                                                  ELSE DefaultScale]
                  ELSE c]

\* detect_card_hover of the single-card demo (main.rs): the card's new target
\* scale; `c` has base_scale, size, pos and scale, NoCursor is a pointer that
\* is not in the window
detect_card_hover(c, cursor_pos) ==
    IF cursor_pos = NoCursor THEN c.base_scale
    ELSE IF InBox(cursor_pos, c.pos, TDiv(c.size[1] * c.scale, 2 * DefaultScale),
                  TDiv(c.size[2] * c.scale, 2 * DefaultScale))
         THEN TDiv(c.base_scale * HoverScale, DefaultScale)
         ELSE c.base_scale

\* the demo's card at the centre of the screen, at rest or grown
DemoCards ==
    {[base_scale |-> DefaultScale, size |-> <<20000, 30000>>, pos |-> At(0, 0), scale |-> sc] :
        sc \in {DefaultScale, HoverScale}}

\* ------------------------------------------------------ hand_layout_system
\* variant: a hovered card that is being dragged counts as the hovered one
RECURSIVE hovered_index_any(_, _)
hovered_index_any(it, cs) ==
    IF it = <<>> THEN -1
    ELSE LET c == cs[Head(it)]
         IN IF c.in_hand /\ c.is_hovered THEN c.hand_index
            ELSE hovered_index_any(Tail(it), cs)

\* first hovered, non-dragging hand card of the iteration: its stored index
RECURSIVE hovered_index(_, _)
hovered_index(it, cs) ==
    IF it = <<>> THEN -1
    ELSE LET c == cs[Head(it)]
         IN IF c.in_hand /\ c.is_hovered /\ ~c.dragging THEN c.hand_index
            ELSE hovered_index(Tail(it), cs)

\* target position of hand index `index` among hand_count cards, hovered_idx
\* being the hovered index or -1
hand_target(index, hand_count, hovered_idx, w_height) ==
    LET cw == card_width(w_height)
        ch == card_height(w_height)
        card_spacing == TDiv(cw * 4, 10)
        arc_height == TDiv(ch, 10)
        hover_spread == TDiv(cw * 3, 10)
        hand_y == player_hand_y(w_height)
        total_width == (hand_count - 1) * card_spacing
        start_x == -TDiv(total_width, 2)
        x_offset == index * card_spacing
                    + (IF hovered_idx >= 0 /\ index > hovered_idx THEN hover_spread
                       ELSE IF hovered_idx >= 0 /\ index < hovered_idx THEN -hover_spread
                       ELSE 0)
        \* twice center_offset, and twice max(hand_count / 2, 1)
        c2 == 2 * index - (hand_count - 1)
        m2 == Max(hand_count, 2)
        y_offset == TDiv(arc_height * (m2 * m2 - c2 * c2), m2 * m2)
    IN At(start_x + x_offset, hand_y + y_offset)

\* rotation of hand index `index` among hand_count cards
hand_rotation(index, hand_count) ==
    TDiv(-((2 * index - (hand_count - 1)) * RotationPerCard), 2)

\* variant: the fan rotation is applied on top of the rotation the card has
hand_layout_system_turns(cs, it, w_height) ==
    LET hand_count == InHandCount(cs)
        hovered_idx == hovered_index(it, cs)
    IN IF hand_count = 0 THEN cs
       ELSE [e \in DOMAIN cs |->
               LET c == cs[e]
               IN IF ~c.in_hand \/ c.dragging THEN c
                  ELSE [c EXCEPT
                          !.target_position = hand_target(c.hand_index, hand_count, hovered_idx, w_height),
                          !.rotation = c.rotation + hand_rotation(c.hand_index, hand_count)]]

hand_layout_system(cs, it, w_height) ==
    LET hand_count == InHandCount(cs)
        hovered_idx == hovered_index(it, cs)
    IN IF hand_count = 0 THEN cs
       ELSE [e \in DOMAIN cs |->
               LET c == cs[e]
               IN IF ~c.in_hand \/ c.dragging THEN c
                  ELSE [c EXCEPT
                          !.target_position = hand_target(c.hand_index, hand_count, hovered_idx, w_height),
                          !.rotation = hand_rotation(c.hand_index, hand_count)]]

\* --------------------------------------------------- card_animation_system
\* one easing step of a coordinate or of the scale
\* (f32 arithmetic rounds to nearest: so does the fixed-point step)
ease(current, target, delta_ms) == current + RDiv((target - current) * AnimationSpeed * delta_ms, 1000)

\* variant: the scale is eased at every step and never snapped to its target
animate_scale_no_snap(c, delta_ms) == ease(c.scale, c.target_scale, delta_ms)

animate_scale(c, delta_ms) ==
    IF Abs(c.target_scale - c.scale) > ScaleSnap
    THEN ease(c.scale, c.target_scale, delta_ms)
    ELSE c.target_scale

animate_pos(c, delta_ms) ==
    LET dx == X(c.target_position) - X(c.pos)
        dy == Y(c.target_position) - Y(c.pos)
    IN IF \/ Abs(dx) > PosSnap
          \/ Abs(dy) > PosSnap
          \/ dx * dx + dy * dy > PosSnap * PosSnap
       THEN At(ease(X(c.pos), X(c.target_position), delta_ms),
               ease(Y(c.pos), Y(c.target_position), delta_ms))
       ELSE c.target_position

\* variant: z makes half of its way to the value of the zone at every pass
animate_z_eased(c, hand_count) ==
    LET target == IF c.in_hand
                  THEN IF c.hand_index < hand_count
                       THEN (hand_count - c.hand_index) * ZStep + (IF c.is_hovered THEN HoverZ ELSE 0)
                       ELSE c.z
                  ELSE 0
    IN c.z + TDiv(target - c.z, 2)

\* variant: the z of a hand card is computed whatever its stored index
animate_z_unguarded(c, hand_count) ==
    IF c.in_hand
    THEN (hand_count - c.hand_index) * ZStep + (IF c.is_hovered THEN HoverZ ELSE 0)
    ELSE 0

animate_z(c, hand_count) ==
    IF c.in_hand
    THEN IF c.hand_index < hand_count
         THEN (hand_count - c.hand_index) * ZStep + (IF c.is_hovered THEN HoverZ ELSE 0)
         ELSE c.z
    ELSE 0

card_animation_system(cs, delta_ms) ==
    LET hand_count == InHandCount(cs)
    IN [e \in DOMAIN cs |->
          [cs[e] EXCEPT !.scale = animate_scale(cs[e], delta_ms),
                        !.pos = animate_pos(cs[e], delta_ms),
                        !.z = animate_z(cs[e], hand_count)]]

\* ----------------------------------------------------------- GameplayState
\* variant: the card is taken from the bottom of the deck
draw_card_from_bottom(d) ==
    IF d = <<>> THEN [card |-> 0, deck |-> d]
    ELSE [card |-> d[1], deck |-> SubSeq(d, 2, Len(d))]

\* variant: an empty deck hands out card 1 again
draw_card_from_empty(d) ==
    IF d = <<>> THEN [card |-> 1, deck |-> d]
    ELSE [card |-> d[Len(d)], deck |-> SubSeq(d, 1, Len(d) - 1)]

\* draw_card: the popped card (0 for None) and the deck left
draw_card(d) ==
    IF d = <<>> THEN [card |-> 0, deck |-> d]
    ELSE [card |-> d[Len(d)], deck |-> SubSeq(d, 1, Len(d) - 1)]

add_to_hand(hand, entity) == Append(hand, entity)

\* variant: the handle stays on the hand list
remove_from_hand_keeps(hand, entity) == hand

remove_from_hand(hand, entity) == SelectSeq(hand, LAMBDA e : e # entity)

\* variant: the slot is taken over whoever holds it
play_card_to_slot_overwrites(hand, area, entity, slot) ==
    IF slot < NumSlots
    THEN [ok |-> TRUE, hand |-> remove_from_hand(hand, entity),
          area |-> [area EXCEPT ![slot] = entity]]
    ELSE [ok |-> FALSE, hand |-> hand, area |-> area]

play_card_to_slot(hand, area, entity, slot) ==
    IF slot < NumSlots /\ area[slot] = NoEntity
    THEN [ok |-> TRUE, hand |-> remove_from_hand(hand, entity),
          area |-> [area EXCEPT ![slot] = entity]]
    ELSE [ok |-> FALSE, hand |-> hand, area |-> area]

is_slot_occupied(area, slot) == slot < NumSlots /\ area[slot] # NoEntity

\* ------------------------------------------------------- deck_click_system
clicked_deck(cursor_pos) ==
    InBox(cursor_pos, deck_pos, TDiv(deck_size[1], 2), TDiv(deck_size[2], 2))

\* the press of this frame reaches the deck's box
DeckPressed(pressed, vw, cursor_pos, dk_entity) ==
    /\ pressed
    /\ vw = "ok"
    /\ cursor_pos # NoCursor
    /\ dk_entity = "Deck"
    /\ clicked_deck(cursor_pos)

\* the Commands the click queues: the spawn of the drawn card, and the
\* replacement of the deck by its placeholder once the deck list is empty
deck_click_commands(d, cs, w_height) ==
    LET drawn == draw_card(d)
        card_size == <<card_width(w_height), card_height(w_height)>>
        hand_index == InHandCount(cs)
        hand_count == hand_index + 1
        z == (hand_count - hand_index) * ZStep
    IN (IF drawn.card # 0
        THEN << <<"spawn_card", Len(cs) + 1, drawn.card, hand_index, z, card_size>> >>
        ELSE <<>>)
       \o (IF drawn.deck = <<>>
           THEN << <<"replace_deck", <<deck_offset_x(w_height), deck_offset_y(w_height)>>,
                     card_size>> >>
           ELSE <<>>)

\* -------------------------------------------------------- card_drag_system
\* press: the card that starts being dragged, or NoEntity
\* variant: a press takes any card that is not Dragging, in hand or not
drag_target_any_zone(cs, it, cursor_pos) ==
    topmost_card(it, {e \in DOMAIN cs : ~cs[e].dragging}, cs, cursor_pos, NoEntity)

drag_target(cs, it, cursor_pos) ==
    topmost_card(it, {e \in DOMAIN cs : ~cs[e].dragging /\ cs[e].in_hand}, cs, cursor_pos, NoEntity)

start_drag_commands(cs, it, pressed, cursor_pos) ==
    IF pressed /\ cursor_pos # NoCursor /\ drag_target(cs, it, cursor_pos) # NoEntity
    THEN LET e == drag_target(cs, it, cursor_pos)
         IN << <<"insert_dragging", e,
                 <<X(cursor_pos) - X(cs[e].pos), Y(cursor_pos) - Y(cs[e].pos)>> >> >>
    ELSE <<>>

\* where a dragged card follows the pointer to
drag_pos(c, cursor_pos) == At(X(cursor_pos) - c.offset[1], Y(cursor_pos) - c.offset[2])

\* update of the dragging cards: target_position at once ...
drag_update(cs, cursor_pos) ==
    IF cursor_pos = NoCursor THEN cs
    ELSE [e \in DOMAIN cs |->
            IF cs[e].dragging
            THEN [cs[e] EXCEPT !.target_position = drag_pos(cs[e], cursor_pos)]
            ELSE cs[e]]

\* ... and the Transform with the front-most z as a Command
RECURSIVE drag_update_commands(_, _, _)
drag_update_commands(it, cs, cursor_pos) ==
    IF it = <<>> \/ cursor_pos = NoCursor THEN <<>>
    ELSE LET e == Head(it)
             rest == drag_update_commands(Tail(it), cs, cursor_pos)
         IN IF cs[e].dragging
            THEN << <<"insert_transform", e, drag_pos(cs[e], cursor_pos), DragZ,
                      cs[e].rotation, cs[e].scale>> >> \o rest
            ELSE rest

\* release: the first player slot, in the slots' spawn order, that is free in
\* GameplayState and whose box holds the card's centre; NoSlot if none
drop_slot(area, card_pos) ==
    LET over == {k \in Slots :
                    /\ ~is_slot_occupied(area, k)
                    /\ InBox(card_pos, PlayerSlotPos[k],
                             TDiv(card_width(WindowHeight), 2),
                             TDiv(card_height(WindowHeight), 2))}
    IN IF over = {} THEN NoSlot ELSE CHOOSE k \in over : \A j \in over : k <= j

\* variant: a played card keeps its InHand marker
release_card_keeps_marker(st, e) ==
    LET c == st.cards[e]
        k == drop_slot(st.area, c.pos)
    IN IF k # NoSlot
       THEN LET played == play_card_to_slot(remove_from_hand(st.hand, e), st.area, e, k)
            IN [ cards |-> [st.cards EXCEPT ![e].target_position = PlayerSlotPos[k]],
                 hand |-> played.hand,
                 area |-> played.area,
                 occupied |-> [st.occupied EXCEPT ![k] = TRUE],
                 commands |-> st.commands
                     \o << <<"insert_transform", e, At(0, 0), 0, 0, DefaultScale>>,
                           <<"insert_zone", e, k>>,
                           <<"remove_dragging", e>> >>,
                 dropped |-> st.dropped \cup {<<e, k>>} ]
       ELSE [st EXCEPT !.commands = st.commands \o << <<"remove_dragging", e>> >>,
                       !.dropped = st.dropped \cup {<<e, NoSlot>>}]

\* variant: a drop does not flag the slot as occupied
release_card_unflagged(st, e) ==
    LET c == st.cards[e]
        k == drop_slot(st.area, c.pos)
    IN IF k # NoSlot
       THEN LET played == play_card_to_slot(remove_from_hand(st.hand, e), st.area, e, k)
            IN [ cards |-> [st.cards EXCEPT ![e].target_position = PlayerSlotPos[k]],
                 hand |-> played.hand,
                 area |-> played.area,
                 occupied |-> st.occupied,
                 commands |-> st.commands
                     \o (IF c.in_hand THEN << <<"remove_in_hand", e>> >> ELSE <<>>)
                     \o << <<"insert_transform", e, At(0, 0), 0, 0, DefaultScale>>,
                           <<"insert_zone", e, k>>,
                           <<"remove_dragging", e>> >>,
                 dropped |-> st.dropped \cup {<<e, k>>} ]
       ELSE [st EXCEPT !.commands = st.commands \o << <<"remove_dragging", e>> >>,
                       !.dropped = st.dropped \cup {<<e, NoSlot>>}]

\* the release of one dragging card `e`; st holds what the loop has changed
release_card(st, e) ==
    LET c == st.cards[e]
        k == drop_slot(st.area, c.pos)
    IN IF k # NoSlot
       THEN LET played == play_card_to_slot(remove_from_hand(st.hand, e), st.area, e, k)
            IN [ cards |-> [st.cards EXCEPT ![e].target_position = PlayerSlotPos[k]],
                 hand |-> played.hand,
                 area |-> played.area,
                 occupied |-> [st.occupied EXCEPT ![k] = TRUE],
                 commands |-> st.commands
                     \o (IF c.in_hand THEN << <<"remove_in_hand", e>> >> ELSE <<>>)
                     \o << <<"insert_transform", e, At(0, 0), 0, 0, DefaultScale>>,
                           <<"insert_zone", e, k>>,
                           <<"remove_dragging", e>> >>,
                 dropped |-> st.dropped \cup {<<e, k>>} ]
       ELSE [st EXCEPT !.commands = st.commands \o << <<"remove_dragging", e>> >>,
                       !.dropped = st.dropped \cup {<<e, NoSlot>>}]

RECURSIVE release_all(_, _)
release_all(it, st) ==
    IF it = <<>> THEN st
    ELSE release_all(Tail(it),
                     IF st.cards[Head(it)].dragging THEN release_card(st, Head(it)) ELSE st)

\* the whole system, window and camera present
card_drag_system(st, it, pressed, released, cursor_pos) ==
    LET cs == st.cards
        moved == [st EXCEPT
                    !.cards = drag_update(cs, cursor_pos),
                    !.commands = st.commands
                        \o start_drag_commands(cs, it, pressed, cursor_pos)
                        \o drag_update_commands(it, cs, cursor_pos)]
    IN IF released THEN release_all(it, moved) ELSE moved

\* --------------------------------------------- end of the Update schedule
\* one queued Command applied to the world
apply_command(w, cmd) ==
    LET e == cmd[2]
    IN CASE cmd[1] = "spawn_card" ->
              [w EXCEPT !.cards = Append(w.cards, NewCard(cmd[3], cmd[4], cmd[5], cmd[6]))]
         [] cmd[1] = "replace_deck" ->
              [w EXCEPT !.deck_entity = "DeckEmpty", !.deck_anchor = cmd[2],
                        !.deck_size = cmd[3]]
         [] cmd[1] = "insert_dragging" ->
              [w EXCEPT !.cards[e].dragging = TRUE, !.cards[e].offset = cmd[3]]
         [] cmd[1] = "remove_dragging" ->
              [w EXCEPT !.cards[e].dragging = FALSE, !.cards[e].offset = <<0, 0>>]
         [] cmd[1] = "insert_transform" ->
              [w EXCEPT !.cards[e].pos = cmd[3], !.cards[e].z = cmd[4],
                        !.cards[e].rotation = cmd[5], !.cards[e].scale = cmd[6]]
         [] cmd[1] = "remove_in_hand" ->
              [w EXCEPT !.cards[e].in_hand = FALSE, !.cards[e].hand_index = 0]
         [] cmd[1] = "insert_zone" ->
              [w EXCEPT !.cards[e].zone = cmd[3]]

RECURSIVE apply_commands(_, _)
apply_commands(w, cmds) ==
    IF cmds = <<>> THEN w ELSE apply_commands(apply_command(w, Head(cmds)), Tail(cmds))

\* ------------------------------------------------------------------ input
\* where on a card a press may take hold of it, as pointer minus card centre
GrabOffsets == {<<0, 0>>}
\* frame times: AnimationSpeed * dt is 1
FrameTimes == {200}
\* a frame at 60 Hz, in ms
FastFrame == 16
\* the shortest frame time with animation_speed * delta_secs = 2
SlowFrame == 2000 \div AnimationSpeed

PointerSlots == {k \in Slots : k <= MaxPointerSlot}

\* the pointer positions a frame may see: off the window, the centre of the
\* deck, of a card or of a player slot
PointerChoices(cs) ==
    {NoCursor, deck_pos}
        \cup {cs[e].pos : e \in DOMAIN cs}
        \cup {PlayerSlotPos[k] : k \in PointerSlots}

\* a press that starts a drag takes hold of the card at one of GrabOffsets
GrabAllowed(cmds) ==
    \A i \in DOMAIN cmds : cmds[i][1] = "insert_dragging" => cmds[i][3] \in GrabOffsets

\* the button edges of one frame: <<just_pressed, just_released, held after>>
EdgeChoices(down) ==
    IF down THEN {<<FALSE, FALSE, TRUE>>, <<FALSE, TRUE, FALSE>>, <<TRUE, TRUE, TRUE>>}
    ELSE {<<FALSE, FALSE, FALSE>>, <<TRUE, FALSE, TRUE>>, <<TRUE, TRUE, FALSE>>}

ViewChoices == {"ok", "no_window", "no_camera"}

\* ---------------------------------------------------------------- actions
\* A frame starts: the input of the frame is read.
Frame(edge_set, views, pointers, times, max_cards) ==
    /\ pc = 0
    /\ mode = "Playing"
    /\ \E edges \in edge_set, vw \in views, p \in pointers, t \in times :
          /\ vw # "ok" => p = NoCursor
          /\ DeckPressed(edges[1], vw, p, deck_entity) => Len(cards) < max_cards
          /\ just_pressed' = edges[1]
          /\ just_released' = edges[2]
          /\ button_down' = edges[3]
          /\ view' = vw
          /\ cursor' = p
          /\ dt' = t
    /\ pc' = 1
    /\ UNCHANGED <<game_vars, cards, commands, schedule, dropped_on_slot, history_vars, window_vars>>

BeginFrame ==
    Frame(EdgeChoices(button_down), ViewChoices, PointerChoices(cards), FrameTimes, MaxCards)

\* Escape in a Playing frame: the state transition of the next frame runs
\* OnExit(Playing) and enters Paused
ExitPlaying ==
    /\ pc = 0
    /\ mode = "Playing"
    /\ mode' = "Paused"
    /\ LET w == cleanup_gameplay([cards |-> cards, deck_entity |-> deck_entity,
                                  slot_occupied |-> slot_occupied,
                                  opponent_slot_occupied |-> opponent_slot_occupied])
       IN /\ cards' = w.cards
          /\ deck_entity' = w.deck_entity
          /\ slot_occupied' = w.slot_occupied
          /\ opponent_slot_occupied' = w.opponent_slot_occupied
    /\ deck_pos' = NoCursor
    /\ deck_anchor' = <<>>
    /\ deck_size' = <<>>
    /\ released_last_frame' = {}
    /\ drag_origin' = <<>>
    /\ \E down \in BOOLEAN : button_down' = down
    /\ UNCHANGED <<deck, player_hand, player_play_area, opponent_play_area, commands,
                   just_pressed, just_released, cursor, view, dt, schedule, pc,
                   dropped_on_slot, window, window_dims>>

\* the Main Menu button of the pause screen
PausedToMenu ==
    /\ mode = "Paused"
    /\ mode' = "Menu"
    /\ \E down \in BOOLEAN : button_down' = down
    /\ UNCHANGED <<game_vars, cards, commands, just_pressed, just_released, cursor,
                   view, dt, schedule, pc, dropped_on_slot, history_vars,
                   window, window_dims, deck_pos>>

\* Escape or Resume in Paused, Play in the menu: OnEnter(Playing)
EnterPlaying ==
    /\ mode \in {"Paused", "Menu"}
    /\ mode' = "Playing"
    /\ LET w == setup_gameplay(window, cards)
       IN /\ window_dims' = w.window_dims
          /\ deck' = w.deck
          /\ player_hand' = w.player_hand
          /\ player_play_area' = w.player_play_area
          /\ opponent_play_area' = w.opponent_play_area
          /\ slot_occupied' = w.slot_occupied
          /\ opponent_slot_occupied' = w.opponent_slot_occupied
          /\ cards' = w.cards
          /\ deck_entity' = w.deck_entity
          /\ deck_pos' = w.deck_pos
          /\ deck_anchor' = w.deck_anchor
          /\ deck_size' = w.deck_size
    /\ UNCHANGED <<commands, input_vars, pc, dropped_on_slot, history_vars, window>>

Runs(system) == pc \in 1 .. 5 /\ schedule[pc] = system

HandLayout ==
    /\ Runs("hand_layout")
    /\ \E it \in IterationOrders(cards) :
          cards' = hand_layout_system(cards, it, window_dims[2])
    /\ pc' = pc + 1
    /\ UNCHANGED <<game_vars, commands, input_vars, dropped_on_slot, history_vars, window_vars>>

CardHover ==
    /\ Runs("card_hover")
    /\ IF view = "ok"
       THEN \E it \in IterationOrders(cards) :
               cards' = card_hover_system(cards, it, cursor)
       ELSE cards' = cards
    /\ pc' = pc + 1
    /\ UNCHANGED <<game_vars, commands, input_vars, dropped_on_slot, history_vars, window_vars>>

CardAnimation ==
    /\ Runs("card_animation")
    /\ cards' = card_animation_system(cards, dt)
    /\ pc' = pc + 1
    /\ UNCHANGED <<game_vars, commands, input_vars, dropped_on_slot, history_vars, window_vars>>

DeckClick ==
    /\ Runs("deck_click")
    /\ IF DeckPressed(just_pressed, view, cursor, deck_entity)
       THEN /\ deck' = draw_card(deck).deck
            /\ player_hand' = IF draw_card(deck).card # 0
                              THEN add_to_hand(player_hand, Len(cards) + 1)
                              ELSE player_hand
            /\ commands' = commands \o deck_click_commands(deck, cards, window[2])
       ELSE UNCHANGED <<deck, player_hand, commands>>
    /\ pc' = pc + 1
    /\ UNCHANGED <<player_play_area, opponent_play_area, slot_occupied,
                   opponent_slot_occupied, deck_entity, deck_anchor, deck_size, cards,
                   input_vars,
                   dropped_on_slot, history_vars, window_vars>>

CardDrag ==
    /\ Runs("card_drag")
    /\ IF view = "ok"
       THEN \E it \in IterationOrders(cards) :
               LET st == card_drag_system(
                            [cards |-> cards, hand |-> player_hand,
                             area |-> player_play_area, occupied |-> slot_occupied,
                             commands |-> commands, dropped |-> dropped_on_slot],
                            it, just_pressed, just_released, cursor)
               IN /\ cards' = st.cards
                  /\ player_hand' = st.hand
                  /\ player_play_area' = st.area
                  /\ slot_occupied' = st.occupied
                  /\ commands' = st.commands
                  /\ dropped_on_slot' = st.dropped
                  /\ GrabAllowed(st.commands)
       ELSE UNCHANGED <<cards, player_hand, player_play_area, slot_occupied,
                        commands, dropped_on_slot>>
    /\ pc' = pc + 1
    /\ UNCHANGED <<deck, opponent_play_area, opponent_slot_occupied, deck_entity,
                   deck_anchor, deck_size, input_vars, history_vars, window_vars>>

\* The Update schedule ends: the queued Commands are applied, in order.
EndFrame ==
    /\ pc = 6
    /\ LET w == apply_commands([cards |-> cards, deck_entity |-> deck_entity,
                                deck_anchor |-> deck_anchor, deck_size |-> deck_size],
                               commands)
       IN /\ cards' = w.cards
          /\ deck_entity' = w.deck_entity
          /\ deck_anchor' = w.deck_anchor
          /\ deck_size' = w.deck_size
    /\ commands' = <<>>
    /\ dropped_on_slot' = {}
    /\ released_last_frame' = dropped_on_slot
    /\ drag_origin' = [e \in DOMAIN cards' |->
                         IF \E i \in DOMAIN commands :
                               commands[i][1] = "insert_dragging" /\ commands[i][2] = e
                         THEN cards[e].target_position
                         ELSE IF /\ e \in DOMAIN drag_origin
                                 /\ cards[e].dragging
                                 THEN drag_origin[e]
                         ELSE NoCursor]
    /\ just_pressed' = FALSE
    /\ just_released' = FALSE
    /\ cursor' = NoCursor
    /\ view' = "ok"
    /\ dt' = 0
    /\ pc' = 0
    /\ UNCHANGED <<deck, player_hand, player_play_area, opponent_play_area,
                   slot_occupied, opponent_slot_occupied, button_down, schedule,
                   window_vars>>

Next ==
    \/ BeginFrame
    \/ HandLayout
    \/ CardHover
    \/ CardAnimation
    \/ DeckClick
    \/ CardDrag
    \/ EndFrame
    \/ ExitPlaying
    \/ PausedToMenu
    \/ EnterPlaying

Spec == Init /\ [][Next]_vars

\* ------------------------------------------------- the animation on its own
\* The animation pass alone, on a hand whose targets no other system changes
\* any more, under frame times of every size.
AnimTimes == {FastFrame, 100, 250, SlowFrame}

\* two cards at rest in the hand, nothing hovered
HandAtRest ==
    [e \in 1 .. 2 |->
        LET c == NewCard(DeckSize + 1 - e, e - 1, (2 - (e - 1)) * ZStep,
                         <<card_width(WindowHeight), card_height(WindowHeight)>>)
            rest == hand_target(e - 1, 2, -1, WindowHeight)
        IN [c EXCEPT !.target_position = rest, !.pos = rest,
                     !.rotation = hand_rotation(e - 1, 2)]]

\* the pointer has come over card `e` of the hand at rest: the hover pass and
\* the layout pass have set the new targets
HoverBegins(e) ==
    hand_layout_system(card_hover_system(HandAtRest, <<1, 2>>, HandAtRest[e].pos),
                       <<1, 2>>, WindowHeight)

\* the pointer has left card `e`, which had grown to its hover scale
HoverEnds(e) ==
    LET grown == [i \in 1 .. 2 |->
                     LET c == HoverBegins(e)[i]
                     IN [c EXCEPT !.scale = c.target_scale, !.pos = c.target_position]]
    IN hand_layout_system(card_hover_system(grown, <<1, 2>>, NoCursor), <<1, 2>>, WindowHeight)

AnimHands == {HoverBegins(1), HoverBegins(2), HoverEnds(1), HoverEnds(2)}

AnimInit ==
    /\ window = <<WindowWidth, WindowHeight>>
    /\ button_down = FALSE
    /\ schedule = RegistrationOrder
    /\ \E h \in AnimHands :
          Started([setup_gameplay(window, <<>>) EXCEPT
                      !.deck = SubSeq(NewDeck, 1, DeckSize - 2),
                      !.player_hand = <<1, 2>>,
                      !.cards = h])

\* a frame starts with the button up and the pointer off the window
AnimFrame == Frame({<<FALSE, FALSE, FALSE>>}, {"ok"}, {NoCursor}, AnimTimes, 2)

\* the animation pass of the frame, which ends the frame
AnimationTick ==
    /\ pc = 1
    /\ cards' = card_animation_system(cards, dt)
    /\ dt' = 0
    /\ pc' = 0
    /\ UNCHANGED <<game_vars, commands, button_down, just_pressed, just_released,
                   cursor, view, schedule, dropped_on_slot, history_vars, window_vars>>

AnimNext == AnimFrame \/ AnimationTick

\* frames keep coming
AnimSpec == AnimInit /\ [][AnimNext]_vars /\ WF_vars(AnimNext)

\* ------------------------------------------------- a longer hand, one order
\* The systems in their order of registration, the window always there, a
\* press and a release never in the same frame, one slot to drop on: what it
\* takes to go through sessions of HandCards cards.
HandEdges(down) ==
    IF down THEN {<<FALSE, FALSE, TRUE>>, <<FALSE, TRUE, FALSE>>}
    ELSE {<<FALSE, FALSE, FALSE>>, <<TRUE, FALSE, TRUE>>}

HandPointers(cs) == {NoCursor, deck_pos, PlayerSlotPos[0]} \cup {cs[e].pos : e \in DOMAIN cs}

HandInit ==
    /\ window = <<WindowWidth, WindowHeight>>
    /\ button_down = FALSE
    /\ schedule = RegistrationOrder
    /\ Started(setup_gameplay(window, <<>>))

HandFrame == Frame(HandEdges(button_down), {"ok"}, HandPointers(cards), FrameTimes, HandCards)

HandNext ==
    \/ HandFrame
    \/ HandLayout
    \/ CardHover
    \/ CardAnimation
    \/ DeckClick
    \/ CardDrag
    \/ EndFrame

HandSpec == HandInit /\ [][HandNext]_vars

\* -------------------------------------------- window or camera missing
\* HandSpec's input with frames in which the window or the camera is not
\* there, for sessions of MaxCards cards.
ViewFrame == Frame(HandEdges(button_down), ViewChoices, HandPointers(cards), FrameTimes, MaxCards)

ViewNext ==
    \/ ViewFrame
    \/ HandLayout
    \/ CardHover
    \/ CardAnimation
    \/ DeckClick
    \/ CardDrag
    \/ EndFrame

ViewSpec == HandInit /\ [][ViewNext]_vars

\* ------------------------------------------------ the window and the deck
\* WindowAnchor: on a resize beyond ResizeEpsilon in either axis the stored
\* dimensions follow the window and every anchored element goes to its corner
\* plus its offsets.  The deck and its placeholder are anchored bottom right.
ResizeEpsilon == 10

anchor_position(win, anchor) ==
    At(TDiv(win[1], 2) + anchor[1], -TDiv(win[2], 2) + anchor[2])

window_anchor(dims, win, pos, anchor) ==
    IF Abs(win[1] - dims[1]) > ResizeEpsilon \/ Abs(win[2] - dims[2]) > ResizeEpsilon
    THEN [window_dims |-> win,
          deck_pos |-> IF anchor # <<>> THEN anchor_position(win, anchor) ELSE pos]
    ELSE [window_dims |-> dims, deck_pos |-> pos]

\* the sizes the window takes: the default and 1920 x 1080
WindowSizes == {<<WindowWidth, WindowHeight>>, <<192000, 108000>>}

\* The window is resized between two frames; the anchor pass, first in the
\* next tick, sees it.
WindowResized ==
    /\ pc = 0
    /\ mode = "Playing"
    /\ \E size \in WindowSizes \ {window} :
          /\ window' = size
          /\ LET a == window_anchor(window_dims, size, deck_pos, deck_anchor)
             IN /\ window_dims' = a.window_dims
                /\ deck_pos' = a.deck_pos
    /\ UNCHANGED <<game_vars, cards, commands, input_vars, pc, dropped_on_slot,
                   history_vars, mode>>

\* Sessions that draw the whole deck: the pointer is off the window or on the
\* deck, the window is resized at will.
DeckFrame == Frame(HandEdges(button_down), {"ok"}, {NoCursor, deck_pos}, FrameTimes, DeckSize)

DeckNext ==
    \/ DeckFrame
    \/ HandLayout
    \/ CardHover
    \/ CardAnimation
    \/ DeckClick
    \/ CardDrag
    \/ EndFrame
    \/ WindowResized

DeckSpec == HandInit /\ [][DeckNext]_vars

\* ------------------------------------------------ the drop search alone
\* the player slots as setup_play_areas spawns them for a window of height h
player_slot_positions(h) == calculate_slot_positions(h, NumSlots, player_play_area_y(h))

\* is_over_slot: the box of player slot k holds the card centre
is_over_slot(k, card_pos, h) ==
    InBox(card_pos, At(slot_x(h, NumSlots, k), player_play_area_y(h)),
          TDiv(card_width(h), 2), TDiv(card_height(h), 2))

\* the slots the slot loop of a release does not pass over: free in
\* GameplayState and holding the card centre
drop_candidates(area, card_pos, h) ==
    {k \in Slots : ~is_slot_occupied(area, k) /\ is_over_slot(k, card_pos, h)}

\* the slot loop, the slots enumerated in `order`: it breaks at the first
\* slot it does not pass over; NoSlot if there is none
RECURSIVE first_free_slot(_, _)
first_free_slot(order, candidates) ==
    IF order = <<>> THEN NoSlot
    ELSE IF Head(order) \in candidates THEN Head(order)
         ELSE first_free_slot(Tail(order), candidates)

\* the orders in which a query may enumerate the five slot entities
SlotOrders == {[i \in 1 .. NumSlots |-> f[i - 1]] : f \in Permutations(Slots)}
SpawnOrder == [i \in 1 .. NumSlots |-> i - 1]

\* window sizes: 426 x 240, the default, 800 x 600 and 3840 x 2160
SlotWindows ==
    {<<42600, 24000>>, <<WindowWidth, WindowHeight>>, <<80000, 60000>>, <<384000, 216000>>}

\* cards released in one session of the drop search
MaxDrops == 2

\* card centres to release at: on, at the edges of, just off and between the
\* slot boxes
SlotProbes(h) ==
    LET pos == player_slot_positions(h)
        hw == TDiv(card_width(h), 2)
        hh == TDiv(card_height(h), 2)
        gap == TDiv(card_width(h) * 2, 10)
    IN {At(X(pos[k]) + dx, Y(pos[k]) + dy) :
            k \in Slots,
            dx \in {-hw, 0, hw, hw + 1, hw + TDiv(gap, 2)},
            dy \in {0, hh + 1}}

SlotInit ==
    /\ window \in SlotWindows
    /\ button_down = FALSE
    /\ schedule = RegistrationOrder
    /\ Started(setup_gameplay(window, <<>>))

\* A card whose centre is card_pos is released: the slot loop picks its slot
\* and, if there is one, GameplayState and the slot entity take the card.
\* (the pointer holds the card by its centre, as in GrabOffsets)
SlotSearch ==
    /\ pc = 0
    /\ Cardinality({k \in Slots : player_play_area[k] # NoEntity}) < MaxDrops
    /\ \E card_pos \in SlotProbes(window_dims[2]) :
          LET e == Cardinality({k \in Slots : player_play_area[k] # NoEntity}) + 1
              k == first_free_slot(SpawnOrder,
                                   drop_candidates(player_play_area, card_pos, window_dims[2]))
          IN /\ cursor' = card_pos
             /\ dropped_on_slot' = {<<e, k>>}
             /\ IF k # NoSlot
                THEN /\ player_play_area' = play_card_to_slot(<<>>, player_play_area, e, k).area
                     /\ slot_occupied' = [slot_occupied EXCEPT ![k] = TRUE]
                ELSE UNCHANGED <<player_play_area, slot_occupied>>
    /\ UNCHANGED <<deck, player_hand, opponent_play_area, opponent_slot_occupied, cards,
                   deck_entity, deck_anchor, deck_size, commands, button_down,
                   just_pressed, just_released, view, dt, schedule, pc,
                   history_vars, window_vars>>

SlotNext == SlotSearch

SlotSpec == SlotInit /\ [][SlotNext]_vars

\* ------------------------------------------------------------- properties
FrameBoundary == pc = 0 /\ mode = "Playing"
\* the system that has just run, "" at a frame boundary or before the first
JustRan == IF pc \in 2 .. 6 THEN schedule[pc - 1] ELSE ""
HasSlotZone(c) == c.zone # NoSlot
Occurrences(seq, e) == Cardinality({i \in DOMAIN seq : seq[i] = e})
HalfW == TDiv(card_width(WindowHeight), 2)
HalfH == TDiv(card_height(WindowHeight), 2)

C2_HandleAtMostOnce ==
    \A e \in 1 .. MaxCards :
        Occurrences(player_hand, e)
            + Cardinality({k \in Slots : player_play_area[k] = e})
            + Cardinality({k \in Slots : opponent_play_area[k] = e}) <= 1

C2_Witness ==
    /\ FrameBoundary
    /\ Len(player_hand) >= 1
    /\ \E k \in Slots : player_play_area[k] # NoEntity

\* C3: at every frame boundary a slot's occupied flag is set exactly when
\* some card's zone marker is that slot; no command ever gives a card an
\* opponent slot as its zone.
C3_OccupiedIffZone ==
    FrameBoundary =>
        /\ \A k \in Slots : slot_occupied[k] <=> \E e \in Entities : cards[e].zone = k
        /\ \A k \in Slots : ~opponent_slot_occupied[k]

C3_Witness ==
    FrameBoundary /\ \E k \in Slots : slot_occupied[k] /\ \E e \in Entities : cards[e].zone = k

\* C4: a press on the box of a non-empty deck pops the top card, queues the
\* spawn of exactly one card whose hand index is the length of the hand list
\* before the draw, and appends the new entity to the hand list.
C4_DrawAppends ==
    [][(Runs("deck_click") /\ DeckPressed(just_pressed, view, cursor, deck_entity)
            /\ deck # <<>>)
        => /\ deck' = SubSeq(deck, 1, Len(deck) - 1)
           /\ player_hand' = Append(player_hand, Len(cards) + 1)
           /\ Len(commands') > Len(commands)
           /\ LET queued == SubSeq(commands', Len(commands) + 1, Len(commands'))
                  spawns == {i \in DOMAIN queued : queued[i][1] = "spawn_card"}
              IN /\ Cardinality(spawns) = 1
                 /\ \A i \in spawns :
                       /\ queued[i][2] = Len(cards) + 1
                       /\ queued[i][3] = deck[Len(deck)]
                       /\ queued[i][4] = Len(player_hand)]_vars

\* ------------------------------------------------------------ C5 .. C10
OverFreeSlot(e, k) ==
    /\ player_play_area[k] = NoEntity
    /\ InBox(cards[e].pos, PlayerSlotPos[k], HalfW, HalfH)
OverNoFreeSlot(e) == \A k \in Slots : ~OverFreeSlot(e, k)
StartsDrag(cmds, e) ==
    \E i \in DOMAIN cmds : cmds[i][1] = "insert_dragging" /\ cmds[i][2] = e
NoEligibleHit ==
    \/ cursor = NoCursor
    \/ \A e \in Entities :
          (cards[e].in_hand /\ ~cards[e].dragging) => ~is_under_cursor(cursor, cards[e])
UnderPointer == {e \in Entities : cursor # NoCursor /\ is_under_cursor(cursor, cards[e])}
DistinctZ(S) == \A a, b \in S : a # b => cards[a].z # cards[b].z
TopHovered(S) ==
    \E e \in S : /\ cards[e].is_hovered
                 /\ \A o \in S \ {e} : ~cards[o].is_hovered /\ cards[o].z < cards[e].z

\* C5: a release while a Dragging card's centre lies in the box of an
\* unoccupied player slot k plays the card: after the tick it is off the hand
\* list, its zone is slot k, player_play_area[k] holds it, slot k is flagged
\* occupied, its rotation is 0 and it has no hand marker.
C5_DropPlaysCard ==
    [][ /\ (Runs("card_drag") /\ just_released) =>
              \A e \in Entities : \A k \in Slots :
                  (cards[e].dragging /\ OverFreeSlot(e, k)) => <<e, k>> \in dropped_on_slot'
        /\ (pc = 6) =>
              \A e \in Entities : \A k \in Slots :
                  <<e, k>> \in dropped_on_slot =>
                      /\ Occurrences(player_hand', e) = 0
                      /\ cards'[e].zone = k
                      /\ player_play_area'[k] = e
                      /\ slot_occupied'[k]
                      /\ cards'[e].rotation = 0
                      /\ ~cards'[e].in_hand ]_vars

\* C6: a release while a Dragging card's centre lies over no unoccupied player
\* slot is rejected: hand list, both slot arrays, all occupied flags and the
\* card's stored hand index stay as they were, the card keeps its hand marker,
\* and the next layout pass gives it the target position it had before the drag.
C6_RejectedDropRestores ==
    [][ /\ (Runs("card_drag") /\ just_released) =>
              \A e \in Entities :
                  (cards[e].dragging /\ OverNoFreeSlot(e)) =>
                      /\ <<e, NoSlot>> \in dropped_on_slot'
                      /\ UNCHANGED <<player_hand, player_play_area, opponent_play_area,
                                     slot_occupied, opponent_slot_occupied>>
                      /\ cards'[e].hand_index = cards[e].hand_index
        /\ (pc = 6) =>
              \A e \in Entities :
                  <<e, NoSlot>> \in dropped_on_slot =>
                      /\ cards'[e].in_hand
                      /\ cards'[e].hand_index = cards[e].hand_index
        /\ Runs("hand_layout") =>
              \A e \in Entities :
                  <<e, NoSlot>> \in released_last_frame =>
                      cards'[e].target_position = drag_origin[e] ]_vars

\* C7: every card that is Dragging when a release edge occurs is not Dragging
\* after that tick, and no release edge leaves any card Dragging.
C7_ReleaseClearsDragging ==
    [][ (pc = 6 /\ just_released) =>
            /\ \A e \in Entities : cards[e].dragging => ~cards'[e].dragging
            /\ \A e \in DOMAIN cards' : ~cards'[e].dragging ]_vars

\* C8: a press puts a card into Dragging only if the card carries the hand
\* marker, no slot zone, and is not Dragging already; a press that hits no
\* eligible hand card queues no drag, and, with nothing to move or release,
\* the drag system changes no state.
C8_DragStartsFromHandOnly ==
    [][ /\ (pc = 6) =>
              \A e \in Entities :
                  (StartsDrag(commands, e) \/ (~cards[e].dragging /\ cards'[e].dragging)) =>
                      /\ just_pressed
                      /\ cards[e].in_hand
                      /\ ~HasSlotZone(cards[e])
                      /\ ~cards[e].dragging
        /\ (Runs("card_drag") /\ just_pressed /\ NoEligibleHit) =>
              /\ \A e \in Entities : StartsDrag(commands', e) => StartsDrag(commands, e)
              /\ (~just_released /\ \A e \in Entities : ~cards[e].dragging) =>
                     UNCHANGED <<game_vars, cards, commands, dropped_on_slot>> ]_vars

\* a press on a card lying in a play slot has run through the drag system
\* and no drag was queued
C8_Witness ==
    /\ JustRan = "card_drag" /\ just_pressed /\ view = "ok" /\ cursor # NoCursor
    /\ \E e \in Entities : HasSlotZone(cards[e]) /\ is_under_cursor(cursor, cards[e])
    /\ \A e \in Entities : ~StartsDrag(commands, e)

\* C9 (as stated): after every hover pass, among the cards whose boxes contain
\* the pointer and whose z values are pairwise distinct, exactly one is
\* hovered and it has the greatest z.
C9_HoverExclusive ==
    (JustRan = "card_hover" /\ view = "ok") =>
        ((UnderPointer # {} /\ DistinctZ(UnderPointer)) => TopHovered(UnderPointer))

\* C9: after every hover pass, among the cards that are not Dragging, whose
\* boxes contain the pointer and whose z values are pairwise distinct, exactly
\* one is hovered and it has the greatest z.
C9_HoverExclusiveNotDragging ==
    (JustRan = "card_hover" /\ view = "ok") =>
        LET S == {e \in UnderPointer : ~cards[e].dragging}
        IN (S # {} /\ DistinctZ(S)) => TopHovered(S)

\* two overlapping cards, neither Dragging, after a hover pass
C9_Witness ==
    /\ JustRan = "card_hover" /\ view = "ok"
    /\ LET S == {e \in UnderPointer : ~cards[e].dragging}
       IN Cardinality(S) >= 2 /\ DistinctZ(S)

\* C10: at every tick boundary a Dragging card's z is the front-most sentinel
\* and strictly above the z of every other card.
C10_DraggingOnTop ==
    FrameBoundary =>
        \A e \in Entities :
            cards[e].dragging =>
                /\ cards[e].z = DragZ
                /\ \A o \in Entities \ {e} : cards[o].z < cards[e].z

\* ----------------------------------------------------------- C11 .. C20
Pos(system) == CHOOSE i \in 1 .. 5 : schedule[i] = system

\* C11: when a press that hits an eligible hand card and a release fall in
\* the same tick, the card enters Dragging, the release handling of that tick
\* resolves its drop, and at the end of the tick no card is Dragging.
C11_PressReleaseSameTick ==
    [][ (pc = 6 /\ just_pressed /\ just_released
              /\ \E e \in Entities : StartsDrag(commands, e)) =>
            /\ \A e \in Entities :
                  StartsDrag(commands, e) =>
                      \E k \in Slots \cup {NoSlot} : <<e, k>> \in dropped_on_slot
            /\ \A e \in DOMAIN cards' : ~cards'[e].dragging ]_vars

\* C12: in every tick hand layout runs first, hover and drag/drop handling
\* after it, and animation after hover, deck click and drag/drop.
C12_FixedOrder ==
    /\ Pos("hand_layout") = 1
    /\ Pos("card_hover") < Pos("card_animation")
    /\ Pos("deck_click") < Pos("card_animation")
    /\ Pos("card_drag") < Pos("card_animation")

\* ------------------------------------------------------------ C13
AtTargets ==
    \A e \in Entities :
        /\ cards[e].scale = cards[e].target_scale
        /\ cards[e].pos = cards[e].target_position

LaidOutCard(e) == cards[e].in_hand /\ ~cards[e].dragging
LaidOut(i) ==
    /\ player_hand[i] \in Entities
    /\ cards[player_hand[i]].in_hand
    /\ ~cards[player_hand[i]].dragging

\* C14: after the layout pass, of any two non-dragging cards of the hand list
\* the earlier one has the strictly smaller target X.
C14_HandOrderLeftToRight ==
    JustRan = "hand_layout" =>
        \A i, j \in DOMAIN player_hand :
            (i < j /\ LaidOut(i) /\ LaidOut(j)) =>
                X(cards[player_hand[i]].target_position)
                    < X(cards[player_hand[j]].target_position)

InHandAtRest(e) == cards[e].in_hand /\ ~cards[e].dragging

\* C15: after the animation pass, a hovered non-dragging hand card is above
\* every other non-dragging card, and of two unhovered non-dragging hand cards
\* the one with the lower stored hand index is above the other.
C15_HandZOrder ==
    JustRan = "card_animation" =>
        /\ \A e \in Entities :
              (InHandAtRest(e) /\ cards[e].is_hovered) =>
                  \A o \in Entities \ {e} : ~cards[o].dragging => cards[e].z > cards[o].z
        /\ \A a, b \in Entities :
              (/\ InHandAtRest(a) /\ ~cards[a].is_hovered
               /\ InHandAtRest(b) /\ ~cards[b].is_hovered
               /\ cards[a].hand_index < cards[b].hand_index) => cards[a].z > cards[b].z
CornerOffset(pos, win) == <<X(pos) - TDiv(win[1], 2), Y(pos) + TDiv(win[2], 2)>>

Replacements(cmds) == Cardinality({i \in DOMAIN cmds : cmds[i][1] = "replace_deck"})

\* the one-way deck visual, the anchor apart
DeckVisualOneWay ==
    /\ FrameBoundary' => (deck_entity' = "Deck" <=> deck' # <<>>)
    /\ (deck_entity = "Deck" /\ deck_entity' # "Deck") =>
          /\ deck_entity' = "DeckEmpty"
          /\ Replacements(commands) = 1
    /\ deck_entity = "DeckEmpty" =>
          /\ deck_entity' = "DeckEmpty"
          /\ deck' = <<>>
          /\ Len(cards') = Len(cards)
          /\ player_hand' = player_hand
          /\ \A i \in DOMAIN commands' : commands'[i][1] # "spawn_card"

\* C18: between frames the full-deck visual is there exactly while the deck
\* list is non-empty; the draw that empties the deck puts one placeholder with
\* the deck's own anchor in its place; after that the full-deck visual does
\* not come back and no card is drawn.
C18_DeckVisualOneWay ==
    [][ /\ DeckVisualOneWay
        /\ (deck_entity = "Deck" /\ deck_entity' = "DeckEmpty") =>
              deck_anchor' = deck_anchor ]_vars
\* ------------------------------------------------------------ C19
\* the press of this frame falls where the deck visual or its placeholder is
PressOnDeckBox == just_pressed /\ view = "ok" /\ cursor # NoCursor /\ clicked_deck(cursor)

\* C19: a press on the deck's place while the deck list is empty draws
\* nothing: draw_card gives no card, no spawn is queued, and the deck list,
\* the hand list and both slot arrays stay as they are.
C19_EmptyDrawNoOp ==
    [][ (Runs("deck_click") /\ PressOnDeckBox /\ deck = <<>>) =>
            /\ draw_card(deck).card = 0
            /\ draw_card(deck).deck = deck
            /\ deck' = deck
            /\ player_hand' = player_hand
            /\ player_play_area' = player_play_area
            /\ opponent_play_area' = opponent_play_area
            /\ cards' = cards
            /\ \A i \in DOMAIN commands' : commands'[i][1] # "spawn_card" ]_vars

C19_Witness ==
    /\ JustRan = "deck_click"
    /\ PressOnDeckBox
    /\ deck = <<>>
    /\ deck_entity = "DeckEmpty"
    /\ Len(player_hand) = DeckSize
\* ------------------------------------------------------------ C20
\* slot indices handed to play_card_to_slot: the slots and two past the end
SlotArguments == 0 .. (NumSlots + 1)

\* play_card_to_slot refuses slot k for every card of the world
Refused(k) ==
    \A e \in Entities :
        LET r == play_card_to_slot(player_hand, player_play_area, e, k)
        IN ~r.ok /\ r.hand = player_hand /\ r.area = player_play_area

\* C20: play_card_to_slot refuses a slot index past the end and an occupied
\* slot, leaving the hand list and the slot array as they are; and a step of
\* the drag system never overwrites an occupied slot and takes a handle off
\* the hand list only by putting it into a slot that was free.
C20_RejectedDropKeepsHand ==
    [][ /\ \A k \in SlotArguments :
              (k >= NumSlots \/ player_play_area[k] # NoEntity) => Refused(k)
        /\ Runs("card_drag") =>
              /\ \A k \in Slots :
                    player_play_area[k] # NoEntity => player_play_area'[k] = player_play_area[k]
              /\ \A i \in DOMAIN player_hand :
                    Occurrences(player_hand', player_hand[i]) = 0 =>
                        \E k \in Slots : /\ player_play_area[k] = NoEntity
                                         /\ player_play_area'[k] = player_hand[i] ]_vars

\* a card released over an occupied slot has just been turned away
C20_Witness ==
    /\ JustRan = "card_drag"
    /\ \E e \in Entities, k \in Slots :
          /\ <<e, NoSlot>> \in dropped_on_slot
          /\ player_play_area[k] \notin {NoEntity, e}
          /\ InBox(cards[e].pos, PlayerSlotPos[k], HalfW, HalfH)
          /\ Occurrences(player_hand, e) = 1
\* ------------------------------------------------------------ C21
SpatialSystems == {"card_hover", "card_drag", "deck_click"}

\* a spatial system runs in a tick without window or camera and changes nothing
MissingViewNoOp ==
    (pc \in 1 .. 5 /\ schedule[pc] \in SpatialSystems /\ view # "ok") =>
        /\ cards' = cards
        /\ commands' = commands
        /\ UNCHANGED game_vars

\* C21: in a tick without window or camera the hover, drag and deck-click
\* systems change nothing, and an edge of that tick is not lost: once a tick
\* with window and camera has ended with the button up, no card is Dragging.
C21_MissingViewRetries ==
    [][ /\ MissingViewNoOp
        /\ (pc = 6 /\ view = "ok" /\ ~button_down) =>
              \A e \in DOMAIN cards' : ~cards'[e].dragging ]_vars
\* ------------------------------------------------------------ C22
\* the cards the hover scan and the drag-start scan do not skip
HoverCandidates == {e \in Entities : ~cards[e].dragging}
DragCandidates == {e \in Entities : ~cards[e].dragging /\ cards[e].in_hand}

\* the candidates under the pointer that no candidate under the pointer is above
Topmost(candidates) ==
    {e \in candidates :
        /\ is_under_cursor(cursor, cards[e])
        /\ \A o \in candidates : is_under_cursor(cursor, cards[o]) => cards[o].z <= cards[e].z}

\* the member of S that the iteration `it` meets first, and last
FirstSeen(it, S) == it[CHOOSE i \in DOMAIN it : it[i] \in S /\ \A j \in DOMAIN it : it[j] \in S => i <= j]
LastSeen(it, S) == it[CHOOSE i \in DOMAIN it : it[i] \in S /\ \A j \in DOMAIN it : it[j] \in S => j <= i]

\* C22 as stated: when several candidates under the pointer share the
\* greatest z, the scans for hover and for drag start take the one the
\* iteration meets last.
C22_TieLastSeen ==
    cursor # NoCursor =>
        \A it \in IterationOrders(cards) :
            /\ Cardinality(Topmost(HoverCandidates)) > 1 =>
                  hover_target(cards, it, cursor) = LastSeen(it, Topmost(HoverCandidates))
            /\ Cardinality(Topmost(DragCandidates)) > 1 =>
                  drag_target(cards, it, cursor) = LastSeen(it, Topmost(DragCandidates))

\* C22, amended: when several candidates under the pointer share the greatest
\* z, the scans for hover and for drag start take the one the iteration
\* meets first.
C22_TieFirstSeen ==
    cursor # NoCursor =>
        \A it \in IterationOrders(cards) :
            /\ Cardinality(Topmost(HoverCandidates)) > 1 =>
                  hover_target(cards, it, cursor) = FirstSeen(it, Topmost(HoverCandidates))
            /\ Cardinality(Topmost(DragCandidates)) > 1 =>
                  drag_target(cards, it, cursor) = FirstSeen(it, Topmost(DragCandidates))

\* the hover pass has just chosen among cards of the same greatest z
C22_Witness ==
    /\ JustRan = "card_hover"
    /\ view = "ok"
    /\ cursor # NoCursor
    /\ Cardinality(Topmost(DragCandidates)) > 1
    /\ \E e \in Topmost(HoverCandidates) : cards[e].is_hovered
\* ------------------------------------------------------------ C23
PointerAbsent == view = "ok" /\ cursor = NoCursor

\* C23: with the window there and the pointer outside it, the hover pass
\* leaves no non-dragging card hovered and each with the default target
\* scale (the demo's card with its base scale), and a press of that tick
\* starts no drag and draws no card.
C23_NoPointerNoCandidate ==
    [][ /\ (Runs("card_hover") /\ PointerAbsent) =>
              /\ \A e \in Entities :
                    ~cards[e].dragging =>
                        ~cards'[e].is_hovered /\ cards'[e].target_scale = DefaultScale
              /\ \A c \in DemoCards : detect_card_hover(c, cursor) = c.base_scale
        /\ (Runs("card_drag") /\ PointerAbsent /\ just_pressed) =>
              \A e \in Entities : StartsDrag(commands', e) => StartsDrag(commands, e)
        /\ (Runs("deck_click") /\ PointerAbsent /\ just_pressed) =>
              /\ deck' = deck
              /\ player_hand' = player_hand
              /\ commands' = commands ]_vars

\* the pointer has left the window over a grown card, the button going down
C23_Witness ==
    /\ JustRan = "card_hover"
    /\ PointerAbsent
    /\ just_pressed
    /\ \E e \in Entities :
          /\ ~cards[e].dragging
          /\ cards[e].scale = HoverScale
          /\ cards[e].target_scale = DefaultScale
\* ------------------------------------------------------------ C24
\* the cards residing in a play slot: neither in the hand nor being dragged
Played == {e \in Entities : ~cards[e].in_hand /\ ~cards[e].dragging}

\* C24: the hover pass never selects a card that resides in a play slot: it
\* never sets such a card's is_hovered to true and the card's target scale
\* stays 1.0.
C24_PlayedCardNeverHovered ==
    [][ Runs("card_hover") =>
            \A e \in Played :
                /\ ~cards[e].is_hovered => ~cards'[e].is_hovered
                /\ cards[e].target_scale = DefaultScale =>
                      cards'[e].target_scale = DefaultScale ]_vars
\* ------------------------------------------------------------ C25
\* C25: a second run of the hand layout pass on the outcome of the first,
\* with the same cards, indices, hovered card and window, changes no target
\* position and no rotation.
C25_LayoutIdempotent ==
    [][ Runs("hand_layout") =>
            \A it \in IterationOrders(cards) :
                cards' = hand_layout_system(cards, it, window_dims[2]) =>
                    hand_layout_system(cards', it, window_dims[2]) = cards' ]_vars

\* the pass has just fanned a hand of several cards around a hovered one
C25_Witness ==
    /\ JustRan = "hand_layout"
    /\ \E e, o \in Entities :
          /\ e # o
          /\ LaidOutCard(e) /\ LaidOutCard(o)
          /\ cards[e].is_hovered
          /\ cards[o].rotation # 0
          /\ cards[o].target_position =
                hand_target(cards[o].hand_index, InHandCount(cards), cards[e].hand_index, window_dims[2])
\* ------------------------------------------------------------ C26
\* the indices the pass may spread the hand around: those of the hovered hand
\* cards that are not dragged, or none (-1) when there is no such card
SpreadIndices ==
    LET hov == {e \in Entities : LaidOutCard(e) /\ cards[e].is_hovered}
    IN IF hov = {} THEN {-1} ELSE {cards[e].hand_index : e \in hov}

\* C26: the hand layout pass changes nothing of a Dragging card (target
\* position and rotation included), and the other hand cards are spread
\* around a hovered card that is not being dragged, or not spread at all.
C26_LayoutSkipsDragging ==
    [][ Runs("hand_layout") =>
            \A e \in Entities :
                /\ cards[e].dragging => cards'[e] = cards[e]
                /\ LaidOutCard(e) =>
                      \E hi \in SpreadIndices :
                          cards'[e].target_position =
                              hand_target(cards[e].hand_index, InHandCount(cards), hi, window_dims[2]) ]_vars

\* the pass has run over a hand holding a hovered card that is being dragged
\* and a card that is not
C26_Witness ==
    /\ JustRan = "hand_layout"
    /\ \E d, e \in Entities :
          /\ cards[d].dragging /\ cards[d].in_hand /\ cards[d].is_hovered
          /\ cards[d].target_position #
                hand_target(cards[d].hand_index, InHandCount(cards), -1, window_dims[2])
          /\ LaidOutCard(e)
          /\ cards[e].hand_index # cards[d].hand_index
          /\ ~cards[e].is_hovered
\* ------------------------------------------------------------ C27
\* the hand cards whose stored index is not less than the number of hand cards
StaleIndex == {e \in Entities : cards[e].in_hand /\ cards[e].hand_index >= InHandCount(cards)}

\* C27: no difference of a hand count and a hand index is evaluated with a
\* negative result: the animation pass leaves the z of a hand card with a
\* stale index as it is and computes a positive multiple of the z step for
\* the others, the draw path computes z from a difference of exactly one,
\* and the layout pass writes only when there is at least one hand card.
C27_NoIndexUnderflow ==
    [][ /\ Runs("card_animation") =>
              \A e \in Entities :
                  cards[e].in_hand =>
                      IF e \in StaleIndex
                      THEN cards'[e].z = cards[e].z
                      ELSE cards'[e].z >= ZStep
        /\ Runs("deck_click") =>
              \A i \in (Len(commands) + 1) .. Len(commands') :
                  commands'[i][1] = "spawn_card" =>
                      /\ commands'[i][4] = InHandCount(cards)
                      /\ commands'[i][5] = ZStep
        /\ (Runs("hand_layout") /\ cards' # cards) => InHandCount(cards) - 1 >= 0 ]_vars

\* the animation pass has run over a hand card whose index is stale, and its
\* z is still the one of a hand card
C27_Witness ==
    /\ JustRan = "card_animation"
    /\ \E e \in StaleIndex : cards[e].z >= ZStep
\* ------------------------------------------------------------ C28
\* C28: right after the animation pass every card without the hand marker
\* has z = 0 and every hand card whose index is below the hand count has
\* z = (hand count - index) * 10, plus 100 exactly when it is hovered,
\* whatever its z was before the pass.
C28_ZSetDirectly ==
    JustRan = "card_animation" =>
        \A e \in Entities :
            /\ ~cards[e].in_hand => cards[e].z = 0
            /\ (cards[e].in_hand /\ e \notin StaleIndex) =>
                  cards[e].z = (InHandCount(cards) - cards[e].hand_index) * ZStep
                               + (IF cards[e].is_hovered THEN HoverZ ELSE 0)

\* the pass has run over a hovered hand card and a card lying in a slot
C28_Witness ==
    /\ JustRan = "card_animation"
    /\ \E e, o \in Entities :
          /\ cards[e].in_hand /\ cards[e].is_hovered /\ e \notin StaleIndex
          /\ cards[e].z = ZStep + HoverZ
          /\ ~cards[o].in_hand /\ HasSlotZone(cards[o])
          /\ cards[o].z = 0
\* ------------------------------------------------------------ C29
ScaleFollowsHover(cs) ==
    \A e \in DOMAIN cs :
        cs[e].target_scale = IF cs[e].is_hovered THEN HoverScale ELSE DefaultScale

\* C29: in every state every card's target scale is the hover scale when it
\* is hovered and 1.0 when it is not, and in every step a card's is_hovered
\* changes exactly when its target scale does.
C29_TargetScaleFollowsHover ==
    [][ /\ ScaleFollowsHover(cards)
        /\ ScaleFollowsHover(cards')
        /\ \A e \in DOMAIN cards \cap DOMAIN cards' :
              (cards'[e].is_hovered # cards[e].is_hovered)
                  <=> (cards'[e].target_scale # cards[e].target_scale) ]_vars

\* the hover has just passed from one card, still grown, to another
C29_Witness ==
    /\ JustRan = "card_hover"
    /\ \E e, o \in Entities :
          /\ cards[e].is_hovered /\ cards[e].target_scale = HoverScale
          /\ cards[e].scale = DefaultScale
          /\ ~cards[o].is_hovered /\ cards[o].target_scale = DefaultScale
          /\ cards[o].scale = HoverScale
\* ------------------------------------------------------------ C30
\* the cards whose spawn a step has queued
Drawn(before, after) ==
    {after[i][3] : i \in {j \in (Len(before) + 1) .. Len(after) : after[j][1] = "spawn_card"}}

\* C30: within a session the deck is Card 1 .. Card n from the bottom, it
\* changes only by losing its top card, and the k-th draw yields
\* Card (10 + 1 - k): Card 10, Card 9, ..., Card 1.
C30_DeckLifo ==
    [][ (mode = "Playing" /\ mode' = "Playing") =>
            /\ deck = [i \in 1 .. Len(deck) |-> i]
            /\ deck' # deck =>
                  LET k == DeckSize - Len(deck) + 1
                  IN /\ deck # <<>>
                     /\ deck' = SubSeq(deck, 1, Len(deck) - 1)
                     /\ Drawn(commands, commands') = {DeckSize + 1 - k} ]_vars

\* the tenth draw has just yielded Card 1, the first having yielded Card 10
C30_Witness ==
    /\ JustRan = "deck_click"
    /\ deck = <<>>
    /\ Drawn(<<>>, commands) = {1}
    /\ Len(player_hand) = DeckSize
    /\ cards[player_hand[1]].name = DeckSize
\* ------------------------------------------------------------ C31
\* the player slots that hold a card in GameplayState
OccupiedSlots == {k \in Slots : player_play_area[k] # NoEntity}
\* the spawns queued and not yet applied
PendingSpawns == {i \in DOMAIN commands : commands[i][1] = "spawn_card"}
\* the handles given out so far in this session
Handles == 1 .. (DeckSize - Len(deck))

\* C31: in every state of a session the deck, the hand list and the occupied
\* player slots hold 10 cards together, every handle given out is in the
\* hand list or in a player slot exactly once, and the card entities,
\* counting the spawns still queued, are 10 minus the deck length.
C31_CardConservation ==
    mode = "Playing" =>
        /\ Len(deck) + Len(player_hand) + Cardinality(OccupiedSlots) = DeckSize
        /\ \A e \in Handles :
              Occurrences(player_hand, e)
                  + Cardinality({k \in Slots : player_play_area[k] = e}) = 1
        /\ Len(cards) + Cardinality(PendingSpawns) = DeckSize - Len(deck)

\* two cards drawn, one of them dragged into a slot
C31_Witness ==
    /\ FrameBoundary
    /\ Len(deck) = DeckSize - 2
    /\ Len(player_hand) = 1
    /\ Cardinality(OccupiedSlots) = 1
    /\ Len(cards) = 2
\* ------------------------------------------------------------ C32
\* C32: at every frame boundary the stored hand indices of the cards that
\* carry the hand marker are pairwise distinct.
C32_HandIndicesDistinct ==
    FrameBoundary =>
        \A e, o \in Entities :
            (e # o /\ cards[e].in_hand /\ cards[o].in_hand) =>
                cards[e].hand_index # cards[o].hand_index
\* ------------------------------------------------------------ C33
\* the entities that carry the hand marker
Marked == {e \in Entities : cards[e].in_hand}
\* the handles of the hand list
Listed == {player_hand[i] : i \in DOMAIN player_hand}

\* the marker count is being used: as the index of a card that is drawn, as
\* hand_count by the layout pass or by the z computation
CountUsed ==
    \/ Runs("deck_click") /\ DeckPressed(just_pressed, view, cursor, deck_entity) /\ deck # <<>>
    \/ Runs("hand_layout")
    \/ Runs("card_animation")

\* C33: at every frame boundary the entities carrying the hand marker are
\* the handles of the hand list, and whenever the marker count is used as
\* the new card's index or as the hand count of layout and z it equals the
\* length of the hand list.
C33_MarkersAreHandList ==
    [][ /\ FrameBoundary => Marked = Listed
        /\ CountUsed => InHandCount(cards) = Len(player_hand) ]_vars
\* ------------------------------------------------------------ C34
\* the cards that carry the Dragging marker
DraggingCards == {e \in Entities : cards[e].dragging}

\* C34: at most one card is Dragging in any state.
C34_AtMostOneDragging == Cardinality(DraggingCards) <= 1
\* ------------------------------------------------------------ C35
\* the cards flagged hovered
Hovered == {e \in Entities : cards[e].is_hovered}

\* C35 (as stated): at every frame boundary at most one card is flagged
\* hovered, Dragging cards counted.
C35_AtMostOneHovered == FrameBoundary => Cardinality(Hovered) <= 1

\* C35: after every hover pass that finds window and camera, at most one of
\* the cards that are not Dragging is flagged hovered.
C35_AtMostOneHoveredNotDragging ==
    (JustRan = "card_hover" /\ view = "ok") => Cardinality(Hovered \ DraggingCards) <= 1

\* a dragged card that kept its flag, and the card under the pointer flagged
\* by the pass
C35_Witness ==
    /\ JustRan = "card_hover" /\ view = "ok"
    /\ Hovered \cap DraggingCards # {}
    /\ \E e \in Hovered \ DraggingCards : is_under_cursor(cursor, cards[e])
\* ------------------------------------------------------------ C36
\* C36: within a session a player slot that holds a card holds the same card
\* after every step, and that card does not enter the hand list or another
\* slot, gets no Dragging marker queued and, once its marker is gone, does
\* not become Dragging again.
C36_SlotsMonotone ==
    [][ (mode = "Playing" /\ mode' = "Playing") =>
            \A k \in OccupiedSlots :
                LET e == player_play_area[k]
                IN /\ player_play_area'[k] = e
                   /\ Occurrences(player_hand', e) = 0
                   /\ \A j \in Slots \ {k} : player_play_area'[j] # e
                   /\ ~StartsDrag(commands', e)
                   /\ (e \in Entities /\ ~cards[e].dragging) => ~cards'[e].dragging ]_vars

\* a card has just been released over a slot that another card holds, the
\* pointer on that slot, and has been turned away
C36_Witness ==
    /\ JustRan = "card_drag" /\ view = "ok"
    /\ just_released
    /\ \E k \in OccupiedSlots :
          /\ cursor = PlayerSlotPos[k]
          /\ \E o \in DraggingCards :
                /\ o # player_play_area[k]
                /\ cards[o].pos = PlayerSlotPos[k]
                /\ <<o, NoSlot>> \in dropped_on_slot
\* ------------------------------------------------------------ C37
\* C37: at every frame boundary a player slot's occupied flag is set exactly
\* when GameplayState holds a card for that slot, and no opponent slot is
\* occupied in either record.
C37_OccupancyRecordsAgree ==
    FrameBoundary =>
        \A k \in Slots :
            /\ slot_occupied[k] <=> (player_play_area[k] # NoEntity)
            /\ ~opponent_slot_occupied[k]
            /\ opponent_play_area[k] = NoEntity

\* the tick of a drop has ended: its slot is taken in both records, another
\* slot is free in both
C37_Witness ==
    /\ FrameBoundary
    /\ \E k, j \in Slots :
          /\ slot_occupied[k] /\ player_play_area[k] # NoEntity
          /\ ~slot_occupied[j] /\ player_play_area[j] = NoEntity
    /\ \E r \in released_last_frame : r[2] # NoSlot /\ slot_occupied[r[2]]
\* ------------------------------------------------------------ C38
\* the player slots whose box holds the card centre p in a window of height h
SlotsOver(p, h) == {k \in Slots : is_over_slot(k, p, h)}

\* C38: for the window at hand the five player slot boxes are pairwise
\* disjoint, at most one of them holds the centre of the released card, and
\* the slot the search has picked is the one it picks in every order of
\* enumeration of the slots.
C38_DropTargetOrderFree ==
    [][ LET h == window_dims[2]
            pos == player_slot_positions(h)
        IN /\ \A j, k \in Slots :
                 j < k => X(pos[j]) + TDiv(card_width(h), 2) < X(pos[k]) - TDiv(card_width(h), 2)
           /\ Cardinality(SlotsOver(cursor', h)) <= 1
           /\ \A candidates \in {drop_candidates(player_play_area, cursor', h)} :
                 \A r \in dropped_on_slot' :
                     \A order \in SlotOrders :
                         first_free_slot(order, candidates) = r[2] ]_vars

\* in a window that is not the default one a card has been dropped into a
\* slot next to an occupied one, its centre on the edge of the box
C38_Witness ==
    /\ window # <<WindowWidth, WindowHeight>>
    /\ \E r \in dropped_on_slot :
          /\ r[2] \in Slots \ {0}
          /\ player_play_area[r[2]] = r[1]
          /\ player_play_area[r[2] - 1] \notin {NoEntity, r[1]}
          /\ X(cursor) = X(player_slot_positions(window_dims[2])[r[2]]) - TDiv(card_width(window_dims[2]), 2)
\* ------------------------------------------------------------ C39
\* C39: the press of one tick does not both draw a card and start a drag:
\* the commands of a tick never hold the spawn of a drawn card together with
\* the Dragging marker of a hand card.
C39_DrawOrDrag ==
    ~(PendingSpawns # {} /\ \E e \in Entities : StartsDrag(commands, e))
====
